---- MODULE Spec2Model ----
(***************************************************************************)
(* State-machine model of discord/client.py (class Client): login, the     *)
(* websocket connection lifecycle (connect / receive loop / close /        *)
(* logout), the keep-alive (heartbeat) tasks, the event dispatcher, the    *)
(* registration of callbacks, the message history and the resolution of    *)
(* message destinations.                                                   *)
(*                                                                         *)
(* Scheduling is asyncio's: one thread, tasks interleave only at           *)
(* `yield from` points.  Every action below is one run of a coroutine      *)
(* between two suspension points.                                          *)
(***************************************************************************)
EXTENDS Integers, Sequences, FiniteSets, TLC

\* ----------------------------------------------------------------- bounds
MaxConnects == 2      \* calls of connect()
MaxFrames == 2        \* inbound frames decoded over a run
MaxTime == 1          \* clock, in seconds
MaxMessages == 102    \* MESSAGE_CREATE frames received in a row
MaxChannels == 2      \* private channels started

\* ------------------------------------------------------------ value sets
NoToken == "None"
Tokens == {"t1"}
NoHeader == "absent"
Unset == "unset"                       \* attribute never assigned

\* HTTP statuses the login and gateway requests are answered with
Statuses == {200, 400, 500}
\* 'message' of an error body; "None" when the body has no such key
ServerMessages == {"None", "m1"}

\* the tuple of received_message
Recognized ==
    {"READY", "MESSAGE_CREATE", "MESSAGE_DELETE",
     "MESSAGE_UPDATE", "PRESENCE_UPDATE", "USER_UPDATE",
     "CHANNEL_DELETE", "CHANNEL_UPDATE", "CHANNEL_CREATE",
     "GUILD_MEMBER_ADD", "GUILD_MEMBER_REMOVE",
     "GUILD_MEMBER_UPDATE", "GUILD_CREATE", "GUILD_DELETE",
     "GUILD_ROLE_CREATE", "GUILD_ROLE_DELETE", "TYPING_START",
     "GUILD_ROLE_UPDATE", "VOICE_STATE_UPDATE"}

\* str.lower() on event names: the recognized ones, and names that are
\* lower case already
Lower(e) ==
    CASE e = "READY" -> "ready"
      [] e = "MESSAGE_CREATE" -> "message_create"
      [] e = "MESSAGE_DELETE" -> "message_delete"
      [] e = "MESSAGE_UPDATE" -> "message_update"
      [] e = "PRESENCE_UPDATE" -> "presence_update"
      [] e = "USER_UPDATE" -> "user_update"
      [] e = "CHANNEL_DELETE" -> "channel_delete"
      [] e = "CHANNEL_UPDATE" -> "channel_update"
      [] e = "CHANNEL_CREATE" -> "channel_create"
      [] e = "GUILD_MEMBER_ADD" -> "guild_member_add"
      [] e = "GUILD_MEMBER_REMOVE" -> "guild_member_remove"
      [] e = "GUILD_MEMBER_UPDATE" -> "guild_member_update"
      [] e = "GUILD_CREATE" -> "guild_create"
      [] e = "GUILD_DELETE" -> "guild_delete"
      [] e = "GUILD_ROLE_CREATE" -> "guild_role_create"
      [] e = "GUILD_ROLE_DELETE" -> "guild_role_delete"
      [] e = "TYPING_START" -> "typing_start"
      [] e = "GUILD_ROLE_UPDATE" -> "guild_role_update"
      [] e = "VOICE_STATE_UPDATE" -> "voice_state_update"
      [] OTHER -> e

\* the parse_* methods of ConnectionState (discord/state.py): one for each
\* recognized event
StateParsers == {"parse_" \o Lower(e) : e \in Recognized}

\* inbound frames: op, t, and d['heartbeat_interval'] (milliseconds)
Frames ==
    { [op |-> 0, t |-> "READY", hb |-> 1000],
      [op |-> 0, t |-> "MESSAGE_CREATE", hb |-> 0],
      [op |-> 0, t |-> "ready", hb |-> 1000],
      [op |-> 7, t |-> "READY", hb |-> 1000] }
\* the frames that matter to the session: one starts the keep-alive, one does not
SessionFrames ==
    { [op |-> 0, t |-> "READY", hb |-> 1000],
      [op |-> 0, t |-> "MESSAGE_CREATE", hb |-> 0] }

\* attribute names event() is called with, and the callbacks installed
Names == {"on_socket_response", "on_message_create", "on_ready"}
\* the callbacks MESSAGE_CREATE frames reach, and those READY frames reach
MessageNames == {"on_socket_response", "on_message_create"}
ReadyNames == {"on_socket_response", "on_ready"}
Callbacks == {"cb1", "cb2"}
NoCallback == "none"                   \* hasattr(self, name) is False
Urls == {"wss://gw1"}                  \* 'url' of the gateway response

\* ids of the users messages are sent to
Users == {"u1", "u2"}
\* destinations handed to send_message: users, a channel, and a str
Destinations ==
    {[kind |-> "User", id |-> u] : u \in Users}
       \cup {[kind |-> "Channel", id |-> "c9"], [kind |-> "str", id |-> "c9"]}

\* options.get('max_messages'): <<>> is None (the option is not given),
\* <<n>> the integer n
NoOption == <<>>
MaxMessagesOptions == {NoOption, <<-1>>, <<0>>, <<99>>, <<100>>, <<101>>}

\* Faulty variant: a value below 100 raised to 100
CapacityFloor(opt) ==
    IF opt = NoOption THEN 5000 ELSE IF opt[1] < 100 THEN 100 ELSE opt[1]

\* the max_messages Client.__init__ hands to ConnectionState
Capacity(opt) ==
    IF opt = NoOption \/ opt[1] < 100 THEN 5000 ELSE opt[1]

VARIABLES
    token,        \* self.token
    authHeader,   \* self.headers['authorization']
    loggedIn,     \* self._is_logged_in: Unset until the first assignment
    email,        \* self.email (forwarded to self.connection)
    gateway,      \* self.gateway
    ws,           \* self.ws: 0 is None, n > 0 the n-th stream opened
    wsState,      \* transport state of self.ws: none, open, closing, closed
    closed,       \* self._closed
    keep_alive,   \* self.keep_alive: 0 is unset, i > 0 is tasks[i]
    tasks,        \* the keep-alive tasks created so far
    now,          \* the event loop's clock (seconds)
    sent,         \* ops of the frames written to the current stream
    nGateway,     \* gateway discovery requests issued
    nConnects,    \* connect() calls made
    connPc,       \* position of the connect() coroutine
    connResult,   \* how the latest connect() ended
    reconnect,    \* whether _closed was set when connect() was called
    userPc,       \* position of the task calling close()/logout()
    userWs,       \* the stream that task's ws.close() was called on
    userResult,   \* the latest finished API call and how it ended
    handlers,     \* attributes installed by event(): name -> callback
    regResult,    \* how the latest event() call ended
    pending,      \* _run_event tasks scheduled and not yet run
    errorCount,   \* calls of on_error made so far
    lastError,    \* arguments of the latest of them
    nFrames,      \* frames handed to received_message
    mutations,    \* parse_* calls made on the ConnectionState
    lastParse,    \* the parse_* method called last
    trace,        \* what received_message did for the latest frame, in order
    options,      \* the max_messages option the client was built with
    max_messages, \* capacity of the message history (connection.messages)
    messages,     \* the message history, oldest first: frame numbers
    private_channels, \* self.private_channels: [id, user] records
    resolved      \* what the latest _resolve_destination call was given and gave

vars == <<token, authHeader, loggedIn, email, gateway, ws, wsState, closed,
          keep_alive, tasks, now, sent, nGateway, nConnects,
          connPc, connResult, reconnect, userPc, userWs, userResult,
          handlers, regResult, pending, errorCount, lastError, nFrames,
          mutations, lastParse, trace, options, max_messages, messages,
          private_channels, resolved>>

authVars == <<token, authHeader, loggedIn, email>>
wsVars == <<gateway, ws, wsState, sent, nGateway>>
hbVars == <<keep_alive, tasks>>
connVars == <<nConnects, connPc, connResult, reconnect>>
userVars == <<userPc, userWs, userResult>>
regVars == <<handlers, regResult>>
cbVars == <<errorCount, lastError>>
storeVars == <<options, max_messages, messages, private_channels, resolved>>
frameVars == <<nFrames, mutations, lastParse, trace, storeVars>>

NoParse == "None"
NoFrame == [op |-> -1, t |-> "None", hb |-> 0]
NoError == [method |-> "None", args |-> [id |-> 0, msg |-> NoFrame]]
NoResult == [call |-> "none", res |-> "none", msg |-> "None"]
NoDestination == [kind |-> "None", id |-> "None"]
NoResolution == [dest |-> NoDestination, err |-> "none", id |-> "None"]

\* Client.__init__ with options.get('max_messages') = opt
Construct(opt) ==
    /\ options = opt
    /\ max_messages = Capacity(opt)
    /\ messages = <<>>
    /\ private_channels = <<>>
    /\ resolved = NoResolution
    /\ token = NoToken
    /\ authHeader = NoHeader
    /\ loggedIn = Unset
    /\ email = "None"
    /\ gateway = "None"
    /\ ws = 0
    /\ wsState = "none"
    /\ closed = FALSE
    /\ keep_alive = 0
    /\ tasks = <<>>
    /\ now = 0
    /\ sent = <<>>
    /\ nGateway = 0
    /\ nConnects = 0
    /\ connPc = "idle"
    /\ connResult = "none"
    /\ reconnect = FALSE
    /\ userPc = "idle"
    /\ userWs = 0
    /\ userResult = NoResult
    /\ handlers = [n \in Names |-> NoCallback]
    /\ regResult = "none"
    /\ pending = <<>>
    /\ errorCount = 0
    /\ lastError = NoError
    /\ nFrames = 0
    /\ mutations = 0
    /\ lastParse = NoParse
    /\ trace = <<>>

\* Client(): no option given
Init == Construct(NoOption)

\* Client(max_messages=opt)
InitHistory == \E opt \in MaxMessagesOptions : Construct(opt)

\* ------------------------------------------------------------- API calls
Returns(call, res, msg) ==
    /\ userPc' = "idle"
    /\ userResult' = [call |-> call, res |-> res, msg |-> msg]

\* Faulty variant: the authorization header stored before the status is looked at
login_eager(status, tok, msg) ==
    /\ userPc = "idle"
    /\ authHeader' = tok
    /\ IF status = 400
         THEN /\ Returns("login", "LoginFailure", "None")
              /\ UNCHANGED <<token, loggedIn, email>>
         ELSE IF status # 200
         THEN /\ Returns("login", "HTTPException", msg)
              /\ UNCHANGED <<token, loggedIn, email>>
         ELSE /\ email' = "e1"
              /\ token' = tok
              /\ loggedIn' = "true"
              /\ Returns("login", "ok", "None")
    /\ UNCHANGED <<wsVars, closed, hbVars, now, connVars, userWs, regVars,
                   pending, cbVars, frameVars>>

\* Client.login: the POST is answered with `status`; a 200 body carries
\* `tok`, an error body carries `msg`.  login() is suspended in the POST and
\* in resp.json(); no other task writes what it reads or reads what it
\* writes in between, so it is one step.
login(status, tok, msg) ==
    /\ userPc = "idle"
    /\ IF status = 400
         THEN /\ Returns("login", "LoginFailure", "None")
              /\ UNCHANGED authVars
         ELSE IF status # 200
         THEN /\ Returns("login", "HTTPException", msg)
              /\ UNCHANGED authVars
         ELSE /\ email' = "e1"
              /\ token' = tok
              /\ authHeader' = tok
              /\ loggedIn' = "true"
              /\ Returns("login", "ok", "None")
    /\ UNCHANGED <<wsVars, closed, hbVars, now, connVars, userWs, regVars,
                   pending, cbVars, frameVars>>

Login == \E status \in Statuses, tok \in Tokens, msg \in ServerMessages :
            login(status, tok, msg)

\* a login the server accepts
LoginAccepted == \E tok \in Tokens : login(200, tok, "None")

\* ------------------------------------------------------------- messaging
\* self.user is set once a READY frame has been parsed: the frames that
\* create self.keep_alive
UserKnown == keep_alive # 0

\* the id the server gives the n-th private channel
ChannelId(n) == IF n = 1 THEN "pc1" ELSE IF n = 2 THEN "pc2" ELSE
                IF n = 3 THEN "pc3" ELSE "pc4"

\* Client.start_private_message(user) awaited by the application; the POST
\* is answered with `status`.  The method is suspended in the POST and in
\* r.json() and appends at its end, so it is one step.
start_private_message(user, status) ==
    /\ userPc = "idle"
    /\ Len(private_channels) < MaxChannels
    /\ IF ~UserKnown
         THEN \* self.user is None: self.user.id raises
              /\ Returns("start_private_message", "AttributeError", "None")
              /\ UNCHANGED private_channels
         ELSE IF status # 200
         THEN /\ Returns("start_private_message", "HTTPException", "None")
              /\ UNCHANGED private_channels
         ELSE /\ private_channels' =
                    Append(private_channels,
                           [id |-> ChannelId(Len(private_channels) + 1),
                            user |-> user])
              /\ Returns("start_private_message", "ok", "None")
    /\ UNCHANGED <<authVars, wsVars, closed, hbVars, now, connVars, userWs,
                   regVars, pending, cbVars, nFrames, mutations, lastParse,
                   trace, options, max_messages, messages, resolved>>

StartPrivateMessage == \E user \in Users, status \in Statuses :
                          start_private_message(user, status)

\* utils.find(lambda pm: pm.user == user, self.private_channels): the
\* index of the first match, 0 for None
Find(user) ==
    LET hits == {i \in 1..Len(private_channels) : private_channels[i].user = user}
    IN  IF hits = {} THEN 0 ELSE CHOOSE i \in hits : \A j \in hits : i <= j

\* Client._resolve_destination(d).  For a user with no private channel it
\* calls self.start_private_message(destination) without `yield from`: the
\* call builds a coroutine object that never runs, so no request is made
\* and no channel is appended, and private_channels[-1] is whatever
\* channel was last in the list (IndexError on an empty list).
resolve_destination(d) ==
    IF d.kind \in {"Channel", "PrivateChannel", "Server", "Object"}
      THEN [dest |-> d, err |-> "none", id |-> d.id]
    ELSE IF d.kind = "User"
      THEN IF Find(d.id) = 0
             THEN IF private_channels = <<>>
                    THEN [dest |-> d, err |-> "IndexError", id |-> "None"]
                    ELSE [dest |-> d, err |-> "none",
                          id |-> private_channels[Len(private_channels)].id]
             ELSE [dest |-> d, err |-> "none", id |-> private_channels[Find(d.id)].id]
    ELSE [dest |-> d, err |-> "InvalidArgument", id |-> "None"]

\* Client.send_message(d, content): the destination is resolved, then the
\* message is POSTed to the channel and the POST is answered with `status`
send_message(d, status) ==
    /\ userPc = "idle"
    /\ resolved' = resolve_destination(d)
    /\ IF resolved'.err # "none"
         THEN Returns("send_message", resolved'.err, "None")
         ELSE IF status # 200
         THEN Returns("send_message", "HTTPException", "None")
         ELSE Returns("send_message", "ok", "None")
    /\ UNCHANGED <<authVars, wsVars, closed, hbVars, now, connVars, userWs,
                   regVars, pending, cbVars, nFrames, mutations, lastParse,
                   trace, options, max_messages, messages, private_channels>>

SendMessage == \E d \in Destinations, status \in Statuses : send_message(d, status)

\* ------------------------------------------------------------- dispatcher
\* hasattr(self, name): on_error is a method of the class, every other
\* on_* attribute exists once event() has installed it.
HasAttr(name) ==
    \/ name = "on_error"
    \/ name \in Names /\ handlers[name] # NoCallback

\* Faulty variant: the callback run to its end inside dispatch, nothing scheduled
dispatch_inline(event, arg, pend) == pend

\* Client.dispatch(event, arg) on the queue `pend` of scheduled _run_event
\* tasks.  The class defines no handle_* attribute and event() is given
\* none here (Names), so hasattr(self, handler) is False throughout and
\* only the on_* branch is left.
dispatch(event, arg, pend) ==
    LET method == "on_" \o event
    IN  IF HasAttr(method)
          THEN Append(pend, [method |-> method, args |-> arg])
          ELSE pend

\* The event a parse_* method of ConnectionState hands to dispatch once it
\* has updated the store.
ParserEvent(parser, e) == Lower(e)

\* Faulty variant: the READY test made before the test of op
StartsKeepAliveAnyOp(f) == f.t = "READY"

\* the frames received_message starts a keep-alive task for
StartsKeepAlive(f) == f.op = 0 /\ f.t = "READY"

\* Faulty variant: the parser looked up without the test against the tuple
ParsesUnlisted(f) ==
    /\ f.op = 0
    /\ ("parse_" \o Lower(f.t)) \in StateParsers

\* the frames received_message calls a parse_* method for
Parses(f) ==
    /\ f.op = 0
    /\ f.t \in Recognized
    /\ ("parse_" \o Lower(f.t)) \in StateParsers

\* the methods dispatch(event) schedules a _run_event task for
Scheduled(event) ==
    LET new == dispatch(event, [id |-> 0, msg |-> NoFrame], <<>>)
    IN  [i \in 1..Len(new) |-> new[i].method]

\* Faulty variant: the keep-alive task created after the parser has run
CallsParseFirst(f) ==
    Scheduled("socket_response")
      \o (IF Parses(f)
            THEN <<"parse_" \o Lower(f.t)>>
                   \o Scheduled(ParserEvent("parse_" \o Lower(f.t), f.t))
            ELSE <<>>)
      \o (IF StartsKeepAlive(f) THEN <<"keep_alive_handler">> ELSE <<>>)

\* What received_message(f) does, in the order of its statements: the
\* callbacks it schedules (named on_*), the keep-alive task it creates
\* (keep_alive_handler) and the parser it calls (parse_*), which runs to
\* its end and dispatches its event
Calls(f) ==
    Scheduled("socket_response")
      \o (IF StartsKeepAlive(f) THEN <<"keep_alive_handler">> ELSE <<>>)
      \o (IF Parses(f)
            THEN <<"parse_" \o Lower(f.t)>>
                   \o Scheduled(ParserEvent("parse_" \o Lower(f.t), f.t))
            ELSE <<>>)

\* deque.append on a deque built with maxlen: a full deque drops its
\* leftmost item
DequeAppend(dq, maxlen, x) ==
    IF Len(dq) >= maxlen THEN Append(Tail(dq), x) ELSE Append(dq, x)

\* Client.received_message(f); f is the (nFrames + 1)-th frame decoded, and
\* the callbacks are handed the frame (with its number, which tells two
\* equal frames apart).
received_message(f) ==
    LET id == [id |-> nFrames + 1, msg |-> f]
        p1 == dispatch("socket_response", id, pending)
        parser == "parse_" \o Lower(f.t)
    IN  /\ nFrames' = nFrames + 1
        /\ trace' = Calls(f)
        /\ UNCHANGED <<options, max_messages, private_channels, resolved>>
        /\ IF Parses(f) /\ parser = "parse_message_create"
             THEN messages' = DequeAppend(messages, max_messages, nFrames + 1)
             ELSE UNCHANGED messages
        /\ IF StartsKeepAlive(f)
             THEN /\ tasks' = Append(tasks, [st |-> "new",
                                             interval |-> f.hb \div 1000,
                                             wake |-> 0])
                  /\ keep_alive' = Len(tasks) + 1
             ELSE UNCHANGED <<tasks, keep_alive>>
        /\ IF Parses(f)
             THEN /\ mutations' = mutations + 1
                  /\ lastParse' = parser
                  /\ pending' = dispatch(ParserEvent(parser, f.t), id, p1)
             ELSE /\ UNCHANGED <<mutations, lastParse>>
                  /\ pending' = p1

\* Client.received_message(f) when the parser it calls raises: what comes
\* before the call is done, the parser's event is not dispatched, and the
\* exception leaves received_message.  `appended` tells whether
\* parse_message_create got to its append before it raised.
received_message_raises(f, appended) ==
    LET id == [id |-> nFrames + 1, msg |-> f]
        parser == "parse_" \o Lower(f.t)
    IN  /\ Parses(f)
        /\ nFrames' = nFrames + 1
        /\ trace' = Scheduled("socket_response")
                       \o (IF StartsKeepAlive(f) THEN <<"keep_alive_handler">> ELSE <<>>)
                       \o <<parser>>
        /\ UNCHANGED <<options, max_messages, private_channels, resolved>>
        /\ IF appended /\ parser = "parse_message_create"
             THEN messages' = DequeAppend(messages, max_messages, nFrames + 1)
             ELSE UNCHANGED messages
        /\ IF StartsKeepAlive(f)
             THEN /\ tasks' = Append(tasks, [st |-> "new",
                                             interval |-> f.hb \div 1000,
                                             wake |-> 0])
                  /\ keep_alive' = Len(tasks) + 1
             ELSE UNCHANGED <<tasks, keep_alive>>
        /\ mutations' = mutations + 1
        /\ lastParse' = parser
        /\ pending' = dispatch("socket_response", id, pending)

Remove(seq, i) == SubSeq(seq, 1, i - 1) \o SubSeq(seq, i + 1, Len(seq))

\* Faulty variant: the callback awaited by the receive loop with no try/except: its
\* exception ends connect()
run_event_inline(i, raises) ==
    /\ i \in 1..Len(pending)
    /\ pending' = Remove(pending, i)
    /\ IF raises
         THEN connPc' = "idle" /\ connResult' = "Exception"
         ELSE UNCHANGED <<connPc, connResult>>
    /\ UNCHANGED <<authVars, wsVars, closed, hbVars, now, nConnects, reconnect,
                   userVars, regVars, cbVars, frameVars>>

\* Faulty variant: the state mutation left to the callback's task
run_event_mutating(i, raises) ==
    /\ i \in 1..Len(pending)
    /\ pending' = Remove(pending, i)
    /\ mutations' = mutations + 1
    /\ IF raises
         THEN /\ errorCount' = errorCount + 1
              /\ lastError' = pending[i]
         ELSE UNCHANGED <<errorCount, lastError>>
    /\ UNCHANGED <<authVars, wsVars, closed, hbVars, now, connVars, userVars,
                   regVars, nFrames, lastParse, trace, storeVars>>

\* Client._run_event, run as the i-th scheduled task; `raises` says whether the
\* user's coroutine raises an Exception.
run_event(i, raises) ==
    /\ i \in 1..Len(pending)
    /\ pending' = Remove(pending, i)
    /\ IF raises
         THEN /\ errorCount' = errorCount + 1
              /\ lastError' = pending[i]
         ELSE UNCHANGED <<errorCount, lastError>>
    /\ UNCHANGED <<authVars, wsVars, closed, hbVars, now, connVars, userVars,
                   regVars, frameVars>>

RunEvent == \E i \in 1..Len(pending), raises \in BOOLEAN : run_event(i, raises)

\* Faulty variant: setattr made before the test of iscoroutinefunction
event_unchecked(name, cb, isCoroutine) ==
    /\ handlers' = [handlers EXCEPT ![name] = cb]
    /\ regResult' = IF isCoroutine THEN "ok" ELSE "ClientException"
    /\ UNCHANGED <<authVars, wsVars, closed, hbVars, now, connVars, userVars,
                   pending, cbVars, frameVars>>

\* Faulty variant: a name that has a handler keeps it (the first registration wins)
event_first_wins(name, cb, isCoroutine) ==
    /\ IF ~isCoroutine
         THEN /\ regResult' = "ClientException"
              /\ UNCHANGED handlers
         ELSE /\ handlers' = IF handlers[name] = NoCallback
                               THEN [handlers EXCEPT ![name] = cb]
                               ELSE handlers
              /\ regResult' = "ok"
    /\ UNCHANGED <<authVars, wsVars, closed, hbVars, now, connVars, userVars,
                   pending, cbVars, frameVars>>

\* Client.event(coro), coro.__name__ = name
event(name, cb, isCoroutine) ==
    /\ IF ~isCoroutine
         THEN /\ regResult' = "ClientException"
              /\ UNCHANGED handlers
         ELSE /\ handlers' = [handlers EXCEPT ![name] = cb]
              /\ regResult' = "ok"
    /\ UNCHANGED <<authVars, wsVars, closed, hbVars, now, connVars, userVars,
                   pending, cbVars, frameVars>>

Event == \E name \in MessageNames, cb \in Callbacks, isCoroutine \in BOOLEAN :
            event(name, cb, isCoroutine)

\* coroutines registered for the callbacks of READY frames
EventReady == \E name \in ReadyNames : event(name, "cb1", TRUE)

\* event() called with one and the same callback throughout
EventOne == \E name \in MessageNames, isCoroutine \in BOOLEAN :
               event(name, "cb1", isCoroutine)

\* Client.async_event(coro): a function that is no coroutine function is
\* wrapped by asyncio.coroutine, then event() is called
async_event(name, cb, isCoroutine) == event(name, cb, TRUE)

\* async_event() given a plain function
AsyncEvent == \E name \in MessageNames, cb \in Callbacks :
                 async_event(name, cb, FALSE)

\* ------------------------------------------------------------- keep-alive
\* Faulty variant: every keep-alive task cancelled, not the one self.keep_alive holds
CancelledAll(ts, i) ==
    [k \in 1..Len(ts) |->
        IF ts[k].st \in {"new", "sleep"} THEN [ts[k] EXCEPT !.st = "cancelled"] ELSE ts[k]]

\* Task.cancel() on self.keep_alive
Cancelled(ts, i) ==
    IF ts[i].st \in {"new", "sleep"}
      THEN [ts EXCEPT ![i].st = "cancelled"]
      ELSE ts

Runnable(t) == t.st = "new" \/ (t.st = "sleep" /\ t.wake <= now)

\* Faulty variant: `while True` in place of `while not self._closed`
keep_alive_forever(i) ==
    /\ i \in 1..Len(tasks)
    /\ Runnable(tasks[i])
    /\ IF wsState # "open"
         THEN /\ tasks' = [tasks EXCEPT ![i].st = "failed"]
              /\ UNCHANGED sent
         ELSE /\ sent' = Append(sent, 1)
              /\ tasks' = [tasks EXCEPT ![i].st = "sleep",
                                        ![i].wake = now + tasks[i].interval]
    /\ UNCHANGED <<authVars, gateway, ws, wsState, nGateway, closed, keep_alive,
                   now, connVars, userVars, regVars, pending, cbVars, frameVars>>

\* Faulty variant: one heartbeat and no loop: the task ends once it has sent
keep_alive_once(i) ==
    /\ i \in 1..Len(tasks)
    /\ Runnable(tasks[i])
    /\ IF closed
         THEN /\ tasks' = [tasks EXCEPT ![i].st = "done"]
              /\ UNCHANGED sent
         ELSE IF wsState # "open"
         THEN /\ tasks' = [tasks EXCEPT ![i].st = "failed"]
              /\ UNCHANGED sent
         ELSE /\ sent' = Append(sent, 1)
              /\ tasks' = [tasks EXCEPT ![i].st = "done"]
    /\ UNCHANGED <<authVars, gateway, ws, wsState, nGateway, closed, keep_alive,
                   now, connVars, userVars, regVars, pending, cbVars, frameVars>>

\* One turn of Client.keep_alive_handler's loop in task i: the test of
\* self._closed, the send on self.ws (the frame is written before send can
\* suspend), and the start of the sleep.
keep_alive_handler(i) ==
    /\ i \in 1..Len(tasks)
    /\ Runnable(tasks[i])
    /\ IF closed
         THEN /\ tasks' = [tasks EXCEPT ![i].st = "done"]
              /\ UNCHANGED sent
         ELSE IF wsState # "open"
         THEN \* ws.send raises on a stream that is not open; the task dies
              /\ tasks' = [tasks EXCEPT ![i].st = "failed"]
              /\ UNCHANGED sent
         ELSE /\ sent' = Append(sent, 1)
              /\ tasks' = [tasks EXCEPT ![i].st = "sleep",
                                        ![i].wake = now + tasks[i].interval]
    /\ UNCHANGED <<authVars, gateway, ws, wsState, nGateway, closed, keep_alive,
                   now, connVars, userVars, regVars, pending, cbVars, frameVars>>

KeepAlive == \E i \in 1..Len(tasks) : keep_alive_handler(i)

\* The clock advances once every task that is due has run.
Tick ==
    /\ now < MaxTime
    /\ \A i \in 1..Len(tasks) : ~Runnable(tasks[i])
    /\ now' = now + 1
    /\ UNCHANGED <<authVars, wsVars, closed, hbVars, connVars, userVars,
                   regVars, pending, cbVars, frameVars>>

\* ---------------------------------------------------------------- connect
ConnEnd(res) ==
    /\ connPc' = "idle"
    /\ connResult' = res

\* connect() up to the first suspension of _make_websocket: the test of
\* is_logged_in (the property reads self._is_logged_in, which __init__ does
\* not create: reading it unassigned raises AttributeError) and the GET of
\* _get_gateway.
make_websocket ==
    /\ connPc = "idle"
    /\ nConnects < MaxConnects
    /\ nConnects' = nConnects + 1
    /\ reconnect' = closed
    /\ IF loggedIn = Unset
         THEN ConnEnd("AttributeError") /\ UNCHANGED nGateway
         ELSE IF loggedIn # "true"
         THEN ConnEnd("ClientException") /\ UNCHANGED nGateway
         ELSE /\ nGateway' = nGateway + 1
              /\ connPc' = "gateway"
              /\ connResult' = "running"
    /\ UNCHANGED <<authVars, gateway, ws, wsState, sent, closed, hbVars, now,
                   userVars, regVars, pending, cbVars, frameVars>>

\* Faulty variant: the response's status not looked at
get_gateway_unchecked(status, url) ==
    /\ connPc = "gateway"
    /\ gateway' = url
    /\ connPc' = "wsconnect"
    /\ UNCHANGED connResult
    /\ UNCHANGED <<authVars, ws, wsState, sent, nGateway, closed, hbVars, now,
                   nConnects, reconnect, userVars, regVars, pending, cbVars,
                   frameVars>>

\* _get_gateway resumes with the response; on 200 websockets.connect starts
get_gateway(status, url) ==
    /\ connPc = "gateway"
    /\ IF status # 200
         THEN /\ ConnEnd("GatewayNotFound")
              /\ UNCHANGED gateway
         ELSE /\ gateway' = url
              /\ connPc' = "wsconnect"
              /\ UNCHANGED connResult
    /\ UNCHANGED <<authVars, ws, wsState, sent, nGateway, closed, hbVars, now,
                   nConnects, reconnect, userVars, regVars, pending, cbVars,
                   frameVars>>

GetGateway == \E status \in Statuses, url \in Urls : get_gateway(status, url)

\* Faulty variant: the new stream stored in self.ws, the op 2 payload not written
\* by the time _make_websocket is suspended again
send_handshake_late ==
    /\ connPc = "wsconnect"
    /\ ws' = ws + 1
    /\ wsState' = "open"
    /\ sent' = <<>>
    /\ connPc' = "handshake"
    /\ UNCHANGED <<authVars, gateway, nGateway, closed, hbVars, now, nConnects,
                   connResult, reconnect, userVars, regVars, pending, cbVars,
                   frameVars>>

\* _make_websocket resumes with the new stream and sends the op 2 payload
send_handshake ==
    /\ connPc = "wsconnect"
    /\ ws' = ws + 1
    /\ wsState' = "open"
    /\ sent' = <<2>>
    /\ connPc' = "handshake"
    /\ UNCHANGED <<authVars, gateway, nGateway, closed, hbVars, now, nConnects,
                   connResult, reconnect, userVars, regVars, pending, cbVars,
                   frameVars>>

\* the test of connect()'s while loop, followed by the call of ws.recv()
LoopTest ==
    IF closed
      THEN ConnEnd("ok")
      ELSE connPc' = "recv" /\ UNCHANGED connResult

\* connect() resumes after the handshake was written and enters its loop
connect_loop ==
    /\ connPc = "handshake"
    /\ LoopTest
    /\ UNCHANGED <<authVars, wsVars, closed, hbVars, now, nConnects, reconnect,
                   userVars, regVars, pending, cbVars, frameVars>>

\* ws.recv() returns a frame: received_message, then the loop test
recv_frame(f) ==
    /\ connPc = "recv"
    /\ wsState \in {"open", "closing"}
    /\ received_message(f)
    /\ LoopTest
    /\ UNCHANGED <<authVars, wsVars, closed, now, nConnects, reconnect,
                   userVars, regVars, cbVars>>

\* Faulty variant: the parser's exception caught in the loop, which goes on
connect_recv_isolated(f, appended) ==
    /\ connPc = "recv"
    /\ wsState \in {"open", "closing"}
    /\ nFrames < MaxFrames
    /\ received_message_raises(f, appended)
    /\ LoopTest
    /\ UNCHANGED <<authVars, wsVars, closed, now, nConnects, reconnect,
                   userVars, regVars, cbVars>>

\* ws.recv() returns a frame whose parser raises: nothing in
\* received_message or connect() catches the exception, and connect() ends
\* with it
connect_recv_raises(f, appended) ==
    /\ connPc = "recv"
    /\ wsState \in {"open", "closing"}
    /\ nFrames < MaxFrames
    /\ received_message_raises(f, appended)
    /\ ConnEnd("Exception")
    /\ UNCHANGED <<authVars, wsVars, closed, now, nConnects, reconnect,
                   userVars, regVars, cbVars>>

\* a READY frame whose parser raises
ReadyRaises == connect_recv_raises([op |-> 0, t |-> "READY", hb |-> 1000], FALSE)

ConnectRecvRaises == \E f \in Frames, appended \in BOOLEAN :
                        connect_recv_raises(f, appended)

\* the frames of a run are counted up to MaxFrames
connect_recv(f) == nFrames < MaxFrames /\ recv_frame(f)

ConnectRecv == \E f \in Frames : connect_recv(f)

SessionRecv == \E f \in SessionFrames : connect_recv(f)

\* the server sends MESSAGE_CREATE frames, up to MaxMessages of them
MessageRecv ==
    /\ nFrames < MaxMessages
    /\ recv_frame([op |-> 0, t |-> "MESSAGE_CREATE", hb |-> 0])

\* the server sends READY frames only
ReadyRecv == connect_recv([op |-> 0, t |-> "READY", hb |-> 1000])

\* ws.recv() returns None (the connection is over): connect() calls
\* close(), which returns at once when _closed is set and otherwise waits
\* for ws.close()
connect_recv_none ==
    /\ connPc = "recv"
    /\ wsState # "none"
    /\ wsState' = "closed"
    /\ IF closed
         THEN ConnEnd("ok")
         ELSE connPc' = "closing" /\ UNCHANGED connResult
    /\ UNCHANGED <<authVars, gateway, ws, sent, nGateway, closed, hbVars, now,
                   nConnects, reconnect, userVars, regVars, pending, cbVars,
                   frameVars>>

\* The rest of close() once ws.close() has returned: keep_alive.cancel()
\* (AttributeError when no READY ever created self.keep_alive) and
\* _closed = True.  `ok` tells whether it returned.
close_finish(ok) ==
    IF keep_alive = 0
      THEN /\ ~ok
           /\ UNCHANGED <<closed, tasks>>
      ELSE /\ ok
           /\ tasks' = Cancelled(tasks, keep_alive)
           /\ closed' = TRUE

\* close() called by connect() finishes, and connect() leaves its loop
connect_close ==
    /\ connPc = "closing"
    /\ \E ok \in BOOLEAN :
          /\ close_finish(ok)
          /\ ConnEnd(IF ok THEN "ok" ELSE "AttributeError")
    /\ UNCHANGED <<authVars, wsVars, keep_alive, now, nConnects,
                   reconnect, userVars, regVars, pending, cbVars, frameVars>>

\* ------------------------------------------------------ close and logout
\* Faulty variant: close() without its test of _closed
close_begin_unguarded(ok) ==
    IF ws = 0
      THEN /\ ~ok
           /\ UNCHANGED <<wsState, userWs>>
      ELSE /\ ok
           /\ userWs' = ws
           /\ wsState' = IF wsState = "open" THEN "closing" ELSE wsState

\* close() up to its suspension in ws.close(); `ok` tells whether it got
\* there or returned (the _closed test) or raised (self.ws is None).
close_begin(ok) ==
    IF closed \/ ws = 0
      THEN /\ ~ok
           /\ UNCHANGED <<wsState, userWs>>
      ELSE /\ ok
           /\ userWs' = ws
           /\ wsState' = IF wsState = "open" THEN "closing" ELSE wsState

\* Client.close called by the application, first run
close ==
    /\ userPc = "idle"
    /\ \E ok \in BOOLEAN :
          /\ close_begin(ok)
          /\ IF ok THEN userPc' = "close_ws" /\ UNCHANGED userResult
             ELSE Returns("close", IF closed THEN "ok" ELSE "AttributeError", "None")
    /\ UNCHANGED <<authVars, gateway, ws, sent, nGateway, closed, hbVars, now,
                   connVars, regVars, pending, cbVars, frameVars>>

\* the stream ws.close() was called on is closed when the call returns
StreamClosed == IF ws = userWs THEN "closed" ELSE wsState

\* Client.close called by the application, after ws.close() has returned
close_resume ==
    /\ userPc = "close_ws"
    /\ wsState' = StreamClosed
    /\ \E ok \in BOOLEAN :
          /\ close_finish(ok)
          /\ Returns("close", IF ok THEN "ok" ELSE "AttributeError", "None")
    /\ UNCHANGED <<authVars, gateway, ws, sent, nGateway, keep_alive, now, connVars, userWs, regVars, pending, cbVars,
                   frameVars>>

\* Client.logout, first run: the POST to the logout endpoint is issued
logout ==
    /\ userPc = "idle"
    /\ userPc' = "logout_post"
    /\ UNCHANGED <<authVars, wsVars, closed, hbVars, now, connVars, userWs,
                   userResult, regVars, pending, cbVars, frameVars>>

\* Client.logout resumes with the response (its status is not looked at)
\* and calls close()
logout_close ==
    /\ userPc = "logout_post"
    /\ \E ok \in BOOLEAN :
          /\ close_begin(ok)
          /\ IF ok
               THEN userPc' = "logout_ws" /\ UNCHANGED <<userResult, loggedIn>>
               ELSE IF closed
               THEN loggedIn' = "false" /\ Returns("logout", "ok", "None")
               ELSE UNCHANGED loggedIn /\ Returns("logout", "AttributeError", "None")
    /\ UNCHANGED <<token, authHeader, email, gateway, ws, sent, nGateway, closed,
                   hbVars, now, connVars, regVars, pending, cbVars, frameVars>>

\* Client.logout after its close() has got past ws.close()
logout_resume ==
    /\ userPc = "logout_ws"
    /\ wsState' = StreamClosed
    /\ \E ok \in BOOLEAN :
          /\ close_finish(ok)
          /\ IF ok
               THEN loggedIn' = "false" /\ Returns("logout", "ok", "None")
               ELSE UNCHANGED loggedIn /\ Returns("logout", "AttributeError", "None")
    /\ UNCHANGED <<token, authHeader, email, gateway, ws, sent, nGateway,
                   keep_alive, now, connVars, userWs, regVars,
                   pending, cbVars, frameVars>>

Next ==
    \/ Login \/ close \/ close_resume
    \/ logout \/ logout_close \/ logout_resume
    \/ Event \/ EventReady \/ AsyncEvent \/ RunEvent
    \/ StartPrivateMessage \/ SendMessage
    \/ make_websocket \/ GetGateway \/ send_handshake
    \/ connect_loop \/ ConnectRecv \/ ConnectRecvRaises
    \/ connect_recv_none \/ connect_close
    \/ KeepAlive \/ Tick

Spec == Init /\ [][Next]_vars

\* the session without user callbacks: no event() call is made
NextSession ==
    \/ Login \/ close \/ close_resume
    \/ logout \/ logout_close \/ logout_resume
    \/ make_websocket \/ GetGateway \/ send_handshake
    \/ connect_loop \/ SessionRecv \/ connect_recv_none \/ connect_close
    \/ KeepAlive \/ Tick

SpecSession == Init /\ [][NextSession]_vars

\* the dispatcher, with a server that accepts the login and with the clock
\* stopped: no keep-alive task gets to run
NextDispatch ==
    \/ LoginAccepted \/ EventOne \/ RunEvent
    \/ make_websocket \/ GetGateway \/ send_handshake
    \/ connect_loop \/ ConnectRecv \/ connect_recv_none \/ connect_close

SpecDispatch == Init /\ [][NextDispatch]_vars

\* the handler table under every operation of the client: registrations of
\* either callback, login, connect, READY frames dispatched, close and
\* logout; the clock is stopped and the scheduled callbacks do not get to run
NextRegistry ==
    \/ LoginAccepted \/ Event \/ AsyncEvent
    \/ close \/ close_resume
    \/ logout \/ logout_close \/ logout_resume
    \/ make_websocket \/ GetGateway \/ send_handshake
    \/ connect_loop \/ ReadyRecv \/ connect_recv_none \/ connect_close

SpecRegistry == Init /\ [][NextRegistry]_vars

\* the message history: a client built with any max_messages option logs
\* in, connects and receives messages
NextHistory ==
    \/ LoginAccepted
    \/ make_websocket \/ GetGateway \/ send_handshake
    \/ connect_loop \/ MessageRecv

SpecHistory == InitHistory /\ [][NextHistory]_vars

\* the order of processing: READY and MESSAGE_CREATE frames are received
\* while the callbacks scheduled for them and the keep-alive tasks run in
\* between
NextOrder ==
    \/ LoginAccepted \/ EventReady \/ RunEvent
    \/ KeepAlive \/ Tick
    \/ make_websocket \/ GetGateway \/ send_handshake
    \/ connect_loop \/ SessionRecv

SpecOrder == Init /\ [][NextOrder]_vars

\* the ways a session ends: READY frames are received, with callbacks
\* registered for them, until the connection ends, the application closes
\* it or a parser raises; callbacks run in between (the clock is stopped
\* and the keep-alive tasks do not get to run)
NextShutdown ==
    \/ LoginAccepted \/ EventReady \/ RunEvent
    \/ close \/ close_resume
    \/ make_websocket \/ GetGateway \/ send_handshake
    \/ connect_loop \/ ReadyRecv \/ ReadyRaises
    \/ connect_recv_none \/ connect_close

SpecShutdown == Init /\ [][NextShutdown]_vars

\* messaging: the application starts private channels and sends messages
\* on a client that logs in, connects and receives READY
NextMessaging ==
    \/ LoginAccepted
    \/ make_websocket \/ GetGateway \/ send_handshake
    \/ connect_loop \/ ReadyRecv
    \/ StartPrivateMessage \/ SendMessage

SpecMessaging == Init /\ [][NextMessaging]_vars

\* ================================================================ claims
\* the callbacks a step has scheduled: pending grows at its end only
Grows == Len(pending') >= Len(pending) /\ SubSeq(pending', 1, Len(pending)) = pending
NewCallbacks == SubSeq(pending', Len(pending) + 1, Len(pending'))
Registered(method) == method \in Names /\ handlers[method] # NoCallback
Call(method, id, f) == [method |-> method, args |-> [id |-> id, msg |-> f]]
\* the one on_socket_response call every frame brings, if it is registered
RawCalls(id, f) ==
    IF Registered("on_socket_response")
      THEN <<Call("on_socket_response", id, f)>>
      ELSE <<>>
\* the one call of the event's own callback, if it is registered
EventCalls(id, f) ==
    IF Registered("on_" \o Lower(f.t))
      THEN <<Call("on_" \o Lower(f.t), id, f)>>
      ELSE <<>>
HeartbeatSent == sent' = Append(sent, 1)
Dist(a, b) == IF a >= b THEN a - b ELSE b - a
\* when task i sent its latest heartbeat
HbAt(i) == tasks[i].wake - tasks[i].interval

\* C1 (as claimed): connect() without a successful login fails with
\* ClientException and does no network I/O: no gateway request, no stream,
\* no handshake.
C1_ConnectNotLoggedIn ==
    [][(make_websocket /\ loggedIn # "true") =>
          /\ connPc' = "idle"
          /\ connResult' = "ClientException"
          /\ nGateway' = nGateway
          /\ UNCHANGED <<ws, wsState, sent>>]_vars

\* C2: a user callback that raises leaves the receive loop where it is (its
\* position, its result, the stream, the frames and mutations counted), and
\* on_error is called exactly once, with the callback's name and arguments.
C2_CallbackFailureIsolated ==
    [][\A i \in 1..Len(pending) :
          run_event(i, TRUE) =>
             /\ errorCount' = errorCount + 1
             /\ lastError' = pending[i]
             /\ UNCHANGED <<connPc, connResult, closed, ws, wsState, nFrames,
                            mutations, lastParse>>]_vars

\* a callback has failed, the loop is still receiving, and frames after the
\* failing callback's frame were decoded
C2_Witness ==
    /\ errorCount >= 1
    /\ connPc = "recv"
    /\ nFrames > lastError.args.id

\* C3: a login answered 400 fails with LoginFailure, one answered with
\* another non-200 status fails with HTTPException carrying the server's
\* message; either way token, authorization header, email and logged-in
\* flag are what they were, so an unset token stays unset and a client
\* that was not logged in is not logged in.
C3_FailedLoginKeepsState ==
    [][\A status \in Statuses, tok \in Tokens, msg \in ServerMessages :
          (login(status, tok, msg) /\ status # 200) =>
             /\ userResult'.call = "login"
             /\ userResult'.res = (IF status = 400 THEN "LoginFailure" ELSE "HTTPException")
             /\ status # 400 => userResult'.msg = msg
             /\ UNCHANGED <<token, authHeader, loggedIn, email>>
             /\ token = NoToken => token' = NoToken /\ authHeader' = NoHeader
             /\ loggedIn # "true" => loggedIn' # "true"]_vars

C3_Witness ==
    /\ userResult.call = "login"
    /\ userResult.res \in {"LoginFailure", "HTTPException"}
    /\ token = NoToken
    /\ authHeader = NoHeader
    /\ loggedIn = Unset

\* C4: close() on a closed session returns at once and changes nothing: the
\* stream is not closed again, no task is cancelled, no variable changes.
C4_CloseIdempotent ==
    [][(close /\ closed) =>
          /\ userPc' = "idle"
          /\ userResult' = [call |-> "close", res |-> "ok", msg |-> "None"]
          /\ UNCHANGED <<authVars, wsVars, closed, hbVars, now, connVars,
                         userWs, regVars, pending, cbVars, frameVars>>]_vars

\* close() has returned normally to a caller that never got to ws.close():
\* the session was closed already (by connect() on a None read)
C4_Witness ==
    /\ closed
    /\ userWs = 0
    /\ userResult = [call |-> "close", res |-> "ok", msg |-> "None"]

\* C5: once a close() has completed (_closed is set), no step writes a
\* heartbeat frame.
C5_NoHeartbeatAfterClose == [][closed => ~HeartbeatSent]_vars

\* after a close() a new stream is open, and a keep-alive task that close()
\* did not cancel has run and stopped at the test of _closed
C5_Witness ==
    /\ closed
    /\ wsState = "open"
    /\ \E i \in 1..Len(tasks) : tasks[i].st = "done"

\* C6 (as claimed): while the session is open no two heartbeat frames are
\* sent within one interval, whatever frames arrive.
C6_OneHeartbeatPerInterval ==
    closed \/ \A i, j \in 1..Len(tasks) :
                 (i < j /\ tasks[i].st = "sleep" /\ tasks[j].st = "sleep") =>
                    Dist(HbAt(i), HbAt(j)) >= tasks[i].interval

\* C7 (as claimed): a connect() called after a completed close() enters the
\* receive loop once its handshake is sent.
C7_ReconnectReceives ==
    [][(connect_loop /\ reconnect) => connPc' = "recv"]_vars

\* C8 (as claimed): the token changes only in a successful login(), and
\* when logout() returns the token and the authorization header are gone
\* and the client is not logged in.
C8_LogoutClearsToken ==
    [][/\ token' # token =>
            \E tok \in Tokens, msg \in ServerMessages : login(200, tok, msg)
       /\ ((logout_close \/ logout_resume) /\ userPc' = "idle" /\ userResult'.res = "ok") =>
            /\ token' = NoToken
            /\ authHeader' = NoHeader
            /\ loggedIn' = "false"]_vars

\* C9 (as claimed): an op 0 frame with a recognized name has its parse_*
\* method called once and its registered callback scheduled once; one with
\* another name causes no mutation, schedules no callback, raises nothing.
C9_AsClaimed ==
    [][\A f \in Frames :
          (connect_recv(f) /\ f.op = 0) =>
             /\ Grows
             /\ connResult' = connResult
             /\ IF f.t \in Recognized
                  THEN /\ mutations' = mutations + 1
                       /\ lastParse' = "parse_" \o Lower(f.t)
                       /\ SelectSeq(NewCallbacks, LAMBDA c : c.method # "on_socket_response")
                             = EventCalls(nFrames + 1, f)
                  ELSE /\ UNCHANGED <<mutations, lastParse>>
                       /\ NewCallbacks = <<>>]_vars

\* C9 (amended): as claimed, but on_socket_response, when registered, is
\* scheduled once for every frame, recognized or not.
C9_DispatchOnce ==
    [][\A f \in Frames :
          (connect_recv(f) /\ f.op = 0) =>
             /\ Grows
             /\ connResult' = connResult
             /\ IF f.t \in Recognized
                  THEN /\ mutations' = mutations + 1
                       /\ lastParse' = "parse_" \o Lower(f.t)
                       /\ NewCallbacks = RawCalls(nFrames + 1, f) \o EventCalls(nFrames + 1, f)
                  ELSE /\ UNCHANGED <<mutations, lastParse>>
                       /\ NewCallbacks = RawCalls(nFrames + 1, f)]_vars

\* one MESSAGE_CREATE frame was received with both callbacks registered: one
\* mutation, each callback scheduled once
C9_Witness ==
    /\ nFrames = 1
    /\ mutations = 1
    /\ lastParse = "parse_message_create"
    /\ Len(pending) = 2
    /\ pending[1].method = "on_socket_response"
    /\ pending[2].method = "on_message_create"

\* C10 (as claimed): a frame whose op is not 0 causes no mutation, schedules
\* no callback and starts no keep-alive task.
C10_AsClaimed ==
    [][\A f \in Frames :
          (connect_recv(f) /\ f.op # 0) =>
             /\ UNCHANGED <<mutations, lastParse, tasks, keep_alive>>
             /\ pending' = pending]_vars

\* C10 (amended): as claimed, but on_socket_response, when registered, is
\* scheduled once for the frame.
C10_NonDispatchIgnored ==
    [][\A f \in Frames :
          (connect_recv(f) /\ f.op # 0) =>
             /\ UNCHANGED <<mutations, lastParse, tasks, keep_alive>>
             /\ Grows
             /\ NewCallbacks = RawCalls(nFrames + 1, f)]_vars

\* a frame with op 7 and t = READY was received: on_socket_response is
\* scheduled for it, nothing was parsed and no task exists
C10_Witness ==
    /\ nFrames = 1
    /\ mutations = 0
    /\ tasks = <<>>
    /\ keep_alive = 0
    /\ Len(pending) = 1
    /\ pending[1].method = "on_socket_response"
    /\ pending[1].args.msg.op # 0
    /\ pending[1].args.msg.t = "READY"

\* C11: event() given a callback that is no coroutine function raises
\* ClientException and leaves the handler table as it was: nothing is
\* installed under the callback's name, and a handler registered under that
\* name before stays.
C11_EventRejectsNonCoroutine ==
    [][\A name \in Names, cb \in Callbacks :
          event(name, cb, FALSE) =>
             /\ regResult' = "ClientException"
             /\ handlers' = handlers
             /\ handlers'[name] # cb \/ handlers[name] = cb]_vars

\* a registration was rejected while both names it is made for had a handler, and the
\* handlers are still there
C11_Witness ==
    /\ regResult = "ClientException"
    /\ \A n \in MessageNames : handlers[n] # NoCallback

\* C12: the handler table holds one callback per event name, the one
\* registered last under that name; only a registration changes the table,
\* and no step of the client (frames dispatched, connect, close, login,
\* logout) removes an entry.
C12_LastRegistrationWins ==
    [][/\ \A name \in Names, cb \in Callbacks :
             event(name, cb, TRUE) =>
                handlers' = [n \in Names |-> IF n = name THEN cb ELSE handlers[n]]
       /\ \A n \in Names : handlers[n] # NoCallback => handlers'[n] # NoCallback
       /\ handlers' # handlers => (Event \/ AsyncEvent)]_vars

\* both names hold a callback, different ones, after frames were dispatched
\* and the client has closed and logged out
C12_Witness ==
    /\ handlers["on_socket_response"] = "cb2"
    /\ handlers["on_message_create"] = "cb1"
    /\ nFrames > 0
    /\ closed
    /\ loggedIn = "false"
    /\ userResult = [call |-> "logout", res |-> "ok", msg |-> "None"]

\* C13: when the gateway request is answered with a status other than 200,
\* connect() ends with GatewayNotFound and nothing else changes: no stream
\* is opened, no handshake is sent, no frame is processed, the logged-in
\* and closed flags keep their values; so a first connect() that failed
\* this way leaves a logged-in, open client with no stream.
C13_GatewayNotFound ==
    /\ [][\A status \in Statuses, url \in Urls :
             (get_gateway(status, url) /\ status # 200) =>
                /\ connPc' = "idle"
                /\ connResult' = "GatewayNotFound"
                /\ UNCHANGED <<authVars, gateway, ws, wsState, sent, closed,
                               hbVars, frameVars, pending>>]_vars
    /\ []((connResult = "GatewayNotFound" /\ nConnects = 1
             /\ userPc = "idle" /\ userResult.call \notin {"logout", "close"}) =>
              /\ loggedIn = "true"
              /\ ~closed
              /\ ws = 0 /\ wsState = "none" /\ sent = <<>>
              /\ nFrames = 0)

\* a first connect() has failed with GatewayNotFound on a logged-in client
C13_Witness ==
    /\ connResult = "GatewayNotFound"
    /\ connPc = "idle"
    /\ nConnects = 1
    /\ nGateway = 1
    /\ loggedIn = "true"
    /\ ~closed
    /\ ws = 0

\* C14: the message history never holds more messages than its capacity;
\* it holds the latest messages received, in arrival order, so a message
\* arriving at a full history evicts the oldest one; and the capacity is
\* max_messages when that is at least 100, and 5000 when the option is
\* absent or below 100.
C14_HistoryBounded ==
    /\ [](Len(messages) <= max_messages)
    /\ [](/\ Len(messages) = (IF nFrames <= max_messages THEN nFrames ELSE max_messages)
          /\ \A i \in 1..Len(messages) : messages[i] = nFrames - Len(messages) + i)
    /\ [](max_messages = IF options # NoOption /\ options[1] >= 100
                            THEN options[1] ELSE 5000)
    /\ [][MessageRecv =>
            /\ messages'[Len(messages')] = nFrames + 1
            /\ IF Len(messages) = max_messages
                 THEN SubSeq(messages', 1, Len(messages') - 1) = Tail(messages)
                 ELSE SubSeq(messages', 1, Len(messages') - 1) = messages]_vars

\* a client built with max_messages = 100 has received 101 messages: the
\* history is full and the first message is the one that is gone
C14_Witness ==
    /\ options = <<100>>
    /\ max_messages = 100
    /\ nFrames = 101
    /\ Len(messages) = 100
    /\ messages[1] = 2
    /\ messages[100] = 101

\* C15 (as claimed): send_message to a user with no private channel starts
\* one (a channel is appended) and resolves to its id; and whenever a user
\* destination is resolved, the id is that of a private channel with that
\* user.
C15_ResolvesToUsersChannel ==
    [][\A d \in Destinations, status \in Statuses :
          (send_message(d, status) /\ d.kind = "User") =>
             /\ resolved'.err = "none"
             /\ \E i \in 1..Len(private_channels') :
                   /\ private_channels'[i].id = resolved'.id
                   /\ private_channels'[i].user = d.id
             /\ Find(d.id) = 0 =>
                   /\ Len(private_channels') = Len(private_channels) + 1
                   /\ resolved'.id = private_channels'[Len(private_channels')].id]_vars

\* the keep-alive task received_message has created for frame f
StartedFor(f) ==
    /\ Len(tasks') = Len(tasks) + 1
    /\ keep_alive' = Len(tasks')
    /\ tasks'[Len(tasks')].st = "new"
    /\ tasks'[Len(tasks')].interval * 1000 = f.hb
NotRaw(c) == c # "on_socket_response"

\* C16 (as claimed): for an op 0 READY frame the keep-alive task is created
\* with interval heartbeat_interval / 1000 seconds, and that is the first
\* thing done for the frame: before parse_ready is called and before any
\* callback is scheduled.
C16_AsClaimed ==
    [][\A f \in SessionFrames :
          (connect_recv(f) /\ f.op = 0 /\ f.t = "READY") =>
             /\ StartedFor(f)
             /\ trace'[1] = "keep_alive_handler"]_vars

\* C16 (amended): as claimed, but a registered on_socket_response is
\* scheduled before the keep-alive task is created; parse_ready and every
\* other callback come after it.
C16_HeartbeatBeforeParse ==
    [][\A f \in SessionFrames :
          (connect_recv(f) /\ f.op = 0 /\ f.t = "READY") =>
             /\ StartedFor(f)
             /\ SelectSeq(trace', NotRaw)[1] = "keep_alive_handler"
             /\ \E k \in 1..Len(trace') :
                   /\ trace'[k] = "parse_ready"
                   /\ \E j \in 1..(k - 1) : trace'[j] = "keep_alive_handler"]_vars

\* a READY frame was received with on_socket_response and on_ready
\* registered: the task was created second, before parse_ready and on_ready
C16_Witness ==
    /\ trace = <<"on_socket_response", "keep_alive_handler", "parse_ready", "on_ready">>
    /\ keep_alive = Len(tasks)
    /\ keep_alive > 0
    /\ tasks[keep_alive].interval = 1

\* C17 (as claimed): when ws.recv() returns None, READY received before or
\* not, connect() ends normally with the session closed and the keep-alive
\* task, if there is one, no longer running; and no frame is processed
\* once the session is closed.
C17_NoneReadCloses ==
    [][/\ ((connect_recv_none /\ connPc' = "idle") \/ connect_close) =>
            /\ connResult' = "ok"
            /\ closed'
            /\ keep_alive # 0 => tasks'[keep_alive].st \notin {"new", "sleep"}
       /\ closed => nFrames' = nFrames]_vars

\* C18: on every stream connect() has opened, the first frame written is
\* the handshake (op 2), it is written once, and every other frame on the
\* stream is a heartbeat (op 1) written after it; each connect() that gets
\* a stream writes the handshake as it stores the stream, also while
\* keep-alive tasks of an earlier READY exist.
C18_HandshakeFirst ==
    /\ [](ws # 0 =>
            /\ Len(sent) >= 1
            /\ sent[1] = 2
            /\ \A i \in 2..Len(sent) : sent[i] = 1)
    /\ [][ws' # ws => (send_handshake /\ ws' = ws + 1 /\ sent' = <<2>>)]_vars

\* connect() was called again and has opened its stream while a keep-alive
\* task of the first session is still asleep: the handshake is the one
\* frame on the new stream
C18_Witness ==
    /\ ws = 2
    /\ sent = <<2>>
    /\ \E i \in 1..Len(tasks) : tasks[i].st = "sleep"

IsSorted(seq) == \A i, j \in 1..Len(seq) : i < j => seq[i] < seq[j]
IsCallback(c) == c \in Names
IsParser(c) == c \in StateParsers

\* C19: state mutations happen in the order the frames arrive: a mutation
\* is made only by the step that receives its frame, it is complete when
\* that step ends (before the next frame is read), and no callback or
\* keep-alive step running in between makes or undoes one; so the messages
\* of the history are in frame order.
C19_MutationsInArrivalOrder ==
    /\ [][(mutations' # mutations \/ lastParse' # lastParse \/ messages' # messages) =>
            \E f \in SessionFrames :
               /\ connect_recv(f)
               /\ Parses(f)
               /\ nFrames' = nFrames + 1
               /\ mutations' = mutations + 1
               /\ lastParse' = "parse_" \o Lower(f.t)
               /\ \E k \in 1..Len(trace') : trace'[k] = lastParse']_vars
    /\ [](IsSorted(messages) /\ mutations <= nFrames)

\* two frames were parsed, the second a MESSAGE_CREATE, while a heartbeat
\* was sent and a callback of the first frame has run
C19_Witness ==
    /\ nFrames = 2
    /\ mutations = 2
    /\ messages = <<2>>
    /\ Len(sent) >= 2
    /\ errorCount >= 1
    /\ lastError.args.id = 1

\* C20 (as claimed): for every frame, each callback is scheduled after the
\* frame's parser has run, and dispatch runs no callback: the callbacks
\* registered for the frame are scheduled, none has run when the step ends,
\* and the loop goes on to its next read.
C20_AsClaimed ==
    [][\A f \in SessionFrames :
          connect_recv(f) =>
             /\ \A k \in 1..Len(trace') :
                   IsCallback(trace'[k]) =>
                      \A j \in 1..Len(trace') : IsParser(trace'[j]) => j < k
             /\ Grows
             /\ NewCallbacks = RawCalls(nFrames + 1, f) \o EventCalls(nFrames + 1, f)
             /\ UNCHANGED <<errorCount, lastError>>
             /\ connPc' = "recv"]_vars

\* C20 (amended): as claimed, for every callback except on_socket_response,
\* which is scheduled before the parser is called.
C20_CallbackAfterMutation ==
    [][\A f \in SessionFrames :
          connect_recv(f) =>
             /\ \A k \in 1..Len(trace') :
                   (IsCallback(trace'[k]) /\ NotRaw(trace'[k])) =>
                      \A j \in 1..Len(trace') : IsParser(trace'[j]) => j < k
             /\ Grows
             /\ NewCallbacks = RawCalls(nFrames + 1, f) \o EventCalls(nFrames + 1, f)
             /\ UNCHANGED <<errorCount, lastError>>
             /\ connPc' = "recv"]_vars

\* a READY frame was received with on_ready registered: parse_ready was
\* called, on_ready was scheduled after it and has not run, and the loop is
\* at its next read
C20_Witness ==
    /\ nFrames = 1
    /\ trace = <<"keep_alive_handler", "parse_ready", "on_ready">>
    /\ Len(pending) = 1
    /\ pending[1].method = "on_ready"
    /\ connPc = "recv"

\* the session is open: a stream is connected and _closed is not set
SessionOpen == wsState = "open" /\ ~closed
\* task i is running: created or asleep between two heartbeats
Running(i) == tasks[i].st \in {"new", "sleep"}

\* C21 (as claimed): whenever the session is open, a keep-alive task is
\* running.
C21_AsClaimed == SessionOpen => \E i \in 1..Len(tasks) : Running(i)

\* C21 (amended): whenever the session is open and a READY frame has been
\* received, the keep-alive task that frame started is running.
C21_OpenAfterReadyHasHeartbeat ==
    (SessionOpen /\ keep_alive # 0) => Running(keep_alive)

\* the session is open after READY and its task has sent a heartbeat and
\* sleeps
C21_Witness ==
    /\ SessionOpen
    /\ keep_alive # 0
    /\ tasks[keep_alive].st = "sleep"
    /\ Len(sent) >= 2

\* C22 (as claimed): whenever the session is marked closed, no keep-alive
\* task is left running, those of earlier READY frames included, and from
\* then on no frame is processed: none is counted, parsed or dispatched.
C22_ClosedHasNoHeartbeat ==
    /\ [](closed => \A i \in 1..Len(tasks) : ~Running(i))
    /\ [][closed => UNCHANGED <<nFrames, mutations, lastParse, pending>>]_vars

\* C23: an exception raised by a parse_* method is not caught: connect()
\* ends with it at once, on_error is not called, the parser's event is not
\* dispatched, and no frame is processed while connect() stays ended.
C23_ParserFailureEndsLoop ==
    [][/\ \A f \in Frames, appended \in BOOLEAN :
             connect_recv_raises(f, appended) =>
                /\ connPc' = "idle"
                /\ connResult' = "Exception"
                /\ UNCHANGED <<errorCount, lastError, closed>>
                /\ Grows
                /\ NewCallbacks = RawCalls(nFrames + 1, f)
       /\ (connPc = "idle" /\ connPc' = "idle") => nFrames' = nFrames]_vars

\* connect() has ended with the parser's exception after a frame that was
\* processed and one that failed, on a stream that is still open
C23_Witness ==
    /\ connResult = "Exception"
    /\ connPc = "idle"
    /\ nFrames = 2
    /\ mutations = 2
    /\ trace[Len(trace)] = "parse_ready"
    /\ wsState = "open"

\* a step of close() that got past ws.close(), whoever called it
CloseCompletes == (close_resume \/ connect_close) /\ closed'

\* C24: close() cancels the keep-alive task self.keep_alive holds and no
\* other task: the callbacks scheduled and not yet run are all still
\* scheduled when it has finished, on_error was not called for them, and in
\* a closed session every one of them can still run, to its end or to its
\* failure.
C24_CloseLeavesCallbacks ==
    /\ [][(close \/ close_resume \/ connect_close) =>
            UNCHANGED <<pending, errorCount, lastError, handlers>>]_vars
    /\ [][CloseCompletes =>
            /\ ~Running(keep_alive)'
            /\ \A i \in 1..Len(tasks) : i # keep_alive => tasks'[i] = tasks[i]]_vars
    /\ [](closed =>
            \A i \in 1..Len(pending) :
               ENABLED run_event(i, TRUE) /\ ENABLED run_event(i, FALSE))

\* the session was closed with two callbacks scheduled; one has since
\* failed (on_error was called), the other is still to run; an earlier
\* keep-alive task was not touched
C24_Witness ==
    /\ closed
    /\ errorCount = 1
    /\ Len(pending) >= 1
    /\ Len(tasks) = 2
    /\ tasks[1].st = "new"
    /\ tasks[2].st = "cancelled"

\* C25 (as claimed): whenever connect() ends after its handshake was sent
\* (a None read, a close() by the application, a parser's exception), the
\* session is marked closed and no keep-alive task is left running.
C25_ConnectEndsClosed ==
    [][(connPc \in {"handshake", "recv", "closing"} /\ connPc' = "idle") =>
          /\ closed'
          /\ \A i \in 1..Len(tasks') : ~Running(i)']_vars
====
